---- MODULE Spec2Model ----
(***************************************************************************)
(* rxtxsync.py: mirror the Rx SSB demodulator inputFrequencyOffset to the  *)
(* Tx SSB modulator (plus a fixed offset) and align the center frequency   *)
(* of device set R1 with that of device set R0, over SDRangel's REST API.  *)
(*                                                                         *)
(* JSON documents are trees.  A node is a record [t, n, kids]:             *)
(*   t = "num"  : a number, n its value                                    *)
(*   t = "dict" : a Python dict, kids its items in insertion order, each   *)
(*                [k |-> key, v |-> node]                                  *)
(*   t = "list" : a Python list, kids its items in order (k = "")          *)
(*   t = "null" : JSON null / Python None                                  *)
(* A reference into a document (Python's object reference to a nested      *)
(* dict) is a path: the sequence of item positions leading to it.          *)
(***************************************************************************)
EXTENDS Integers, Sequences, FiniteSets, TLC

\* ------------------------------------------------------------------ JSON

Null == [t |-> "null", n |-> 0, kids |-> <<>>]

Num(x) == [t |-> "num", n |-> x, kids |-> <<>>]

KV(key, val) == [k |-> key, v |-> val]

Dict(items) == [t |-> "dict", n |-> 0, kids |-> items]

List(elems) == [t |-> "list", n |-> 0, kids |-> [i \in 1..Len(elems) |-> KV("", elems[i])]]

IsDict(x) == x.t = "dict"

IsList(x) == x.t = "list"

\* `key in d`
HasKey(d, key) == \E i \in 1..Len(d.kids) : d.kids[i].k = key

IndexOf(d, key) == CHOOSE i \in 1..Len(d.kids) : d.kids[i].k = key

\* d[key], for a key that is present
Item(d, key) == d.kids[IndexOf(d, key)].v

\* d.get(key): None when the key is absent
Get(d, key) == IF HasKey(d, key) THEN Item(d, key) ELSE Null

\* d[key] = val: replaces the value in place, or appends a new item
SetItem(d, key, val) ==
    IF HasKey(d, key)
    THEN [d EXCEPT !.kids[IndexOf(d, key)].v = val]
    ELSE [d EXCEPT !.kids = Append(@, KV(key, val))]

RECURSIVE NodeAt(_, _)
\* the object a reference points to
NodeAt(doc, path) ==
    IF path = <<>> THEN doc
    ELSE NodeAt(doc.kids[Head(path)].v, Tail(path))

RECURSIVE SetAt(_, _, _, _)
\* container[key] = val through a reference: the document as it then reads
SetAt(doc, path, key, val) ==
    IF path = <<>> THEN SetItem(doc, key, val)
    ELSE [doc EXCEPT !.kids[Head(path)].v = SetAt(@, Tail(path), key, val)]

\* --------------------------------------------- find_center_freq_path

NotFound == [found |-> FALSE, path |-> <<>>, key |-> ""]

Found(p, key) == [found |-> TRUE, path |-> p, key |-> key]

\* subk = "" stands for None: a top-level key
candidates ==
    << <<"limeSdrInputSettings", "centerFrequency">>,
       <<"limeSdrOutputSettings", "centerFrequency">>,
       <<"usrpInputSettings", "centerFrequency">>,
       <<"usrpOutputSettings", "centerFrequency">>,
       <<"centerFrequency", "">> >>

\* the candidate list with the top-level key tried first
candidates_top_first ==
    << <<"centerFrequency", "">>,
       <<"limeSdrInputSettings", "centerFrequency">>,
       <<"limeSdrOutputSettings", "centerFrequency">>,
       <<"usrpInputSettings", "centerFrequency">>,
       <<"usrpOutputSettings", "centerFrequency">> >>

RECURSIVE ItemPushes(_, _, _)
\* for item in v: if isinstance(item, dict): stack.append(item)
ItemPushes(lst, p, j) ==
    IF j > Len(lst.kids) THEN <<>>
    ELSE (IF IsDict(lst.kids[j].v) THEN << p \o <<j>> >> ELSE <<>>)
         \o ItemPushes(lst, p, j + 1)

RECURSIVE ValuePushes(_, _, _)
\* for v in node.values(): dicts are pushed, lists contribute their dict items
ValuePushes(node, p, i) ==
    IF i > Len(node.kids) THEN <<>>
    ELSE (IF IsDict(node.kids[i].v) THEN << p \o <<i>> >>
          ELSE IF IsList(node.kids[i].v) THEN ItemPushes(node.kids[i].v, p \o <<i>>, 1)
          ELSE <<>>)
         \o ValuePushes(node, p, i + 1)

RECURSIVE Search(_, _)
\* the while-stack loop: pops the last reference pushed
Search(doc, stack) ==
    IF stack = <<>> THEN NotFound
    ELSE LET p == stack[Len(stack)]
             rest == SubSeq(stack, 1, Len(stack) - 1)
             node == NodeAt(doc, p)
         IN IF IsDict(node)
            THEN IF HasKey(node, "centerFrequency")
                 THEN Found(p, "centerFrequency")
                 ELSE Search(doc, rest \o ValuePushes(node, p, 1))
            ELSE Search(doc, rest)

RECURSIVE SearchPops(_, _)
\* the number of iterations the while-stack loop makes
SearchPops(doc, stack) ==
    IF stack = <<>> THEN 0
    ELSE LET p == stack[Len(stack)]
             rest == SubSeq(stack, 1, Len(stack) - 1)
             node == NodeAt(doc, p)
         IN IF IsDict(node)
            THEN IF HasKey(node, "centerFrequency")
                 THEN 1
                 ELSE 1 + SearchPops(doc, rest \o ValuePushes(node, p, 1))
            ELSE 1 + SearchPops(doc, rest)

RECURSIVE KnownPaths(_, _, _)
\* the loop over the candidate list, from its i-th entry on
KnownPaths(dev_data, cands, i) ==
    IF i > Len(cands) THEN Search(dev_data, << <<>> >>)
    ELSE LET key == cands[i][1]
             subk == cands[i][2]
         IN IF subk = ""
            THEN IF HasKey(dev_data, key)
                 THEN Found(<<>>, key)
                 ELSE KnownPaths(dev_data, cands, i + 1)
            ELSE IF HasKey(dev_data, key) /\ IsDict(Item(dev_data, key))
                    /\ HasKey(Item(dev_data, key), subk)
                 THEN Found(<<IndexOf(dev_data, key)>>, subk)
                 ELSE KnownPaths(dev_data, cands, i + 1)

find_center_freq_path_top_first(dev_data) == KnownPaths(dev_data, candidates_top_first, 1)

find_center_freq_path(dev_data) == KnownPaths(dev_data, candidates, 1)

\* ------------------------------------------------------------- strings

\* The characters of the strings the program inspects (TLC's strings are atoms)
Spell(s) ==
    CASE s = "SSBDemodSettings" -> <<"S", "S", "B", "D", "e", "m", "o", "d", "S", "e", "t", "t", "i", "n", "g", "s">>
      [] s = "SSBModSettings" -> <<"S", "S", "B", "M", "o", "d", "S", "e", "t", "t", "i", "n", "g", "s">>
      [] s = "AMDemodSettings" -> <<"A", "M", "D", "e", "m", "o", "d", "S", "e", "t", "t", "i", "n", "g", "s">>
      [] s = "NFMModSettings" -> <<"N", "F", "M", "M", "o", "d", "S", "e", "t", "t", "i", "n", "g", "s">>
      [] s = "FileSinkSettings" -> <<"F", "i", "l", "e", "S", "i", "n", "k", "S", "e", "t", "t", "i", "n", "g", "s">>
      [] s = "SSBMODSETTINGS" -> <<"S", "S", "B", "M", "O", "D", "S", "E", "T", "T", "I", "N", "G", "S">>
      [] s = "channelType" -> <<"c", "h", "a", "n", "n", "e", "l", "T", "y", "p", "e">>
      [] s = "direction" -> <<"d", "i", "r", "e", "c", "t", "i", "o", "n">>
      [] s = "DemodSettings" -> <<"D", "e", "m", "o", "d", "S", "e", "t", "t", "i", "n", "g", "s">>
      [] s = "ModSettings" -> <<"M", "o", "d", "S", "e", "t", "t", "i", "n", "g", "s">>
      [] s = "settings" -> <<"s", "e", "t", "t", "i", "n", "g", "s">>
      [] s = "demod" -> <<"d", "e", "m", "o", "d">>
      [] s = "mod" -> <<"m", "o", "d">>
      [] s = "ssb" -> <<"s", "s", "b">>
      [] s = "" -> <<>>

UpperChars == <<"A","B","C","D","E","F","G","H","I","J","K","L","M",
                "N","O","P","Q","R","S","T","U","V","W","X","Y","Z">>

LowerChars == <<"a","b","c","d","e","f","g","h","i","j","k","l","m",
                "n","o","p","q","r","s","t","u","v","w","x","y","z">>

\* the lower-case letter of each upper-case letter
ToLower ==
    [c \in {UpperChars[j] : j \in 1..Len(UpperChars)} |->
        LowerChars[CHOOSE j \in 1..Len(UpperChars) : UpperChars[j] = c]]

\* str.lower(), on the spelling
Lower(cs) ==
    [i \in 1..Len(cs) |-> IF cs[i] \in DOMAIN ToLower THEN ToLower[cs[i]] ELSE cs[i]]

\* str.endswith(suffix)
EndsWith(cs, suffix) ==
    /\ Len(suffix) <= Len(cs)
    /\ SubSeq(cs, Len(cs) - Len(suffix) + 1, Len(cs)) = suffix

\* `sub in cs` for strings: sub occurs as a substring
Contains(cs, sub) ==
    \E i \in 1..(Len(cs) - Len(sub) + 1) : SubSeq(cs, i, i + Len(sub) - 1) = sub

\* ------------------------------------------ find_channel_settings_key

\* None, as a key
NoKey == "<None>"

\* channel_json.keys(), in insertion order
Keys(d) == [i \in 1..Len(d.kids) |-> d.kids[i].k]

\* lk.endswith('settings') and role_part in lk
IsRoleKey(key, role) ==
    LET lk == Lower(Spell(key))
        role_part == Lower(Spell(role))
    IN EndsWith(lk, Spell("settings")) /\ Contains(lk, role_part)

\* kind_hint.lower() in k.lower()
HasKind(key, kind_hint) == Contains(Lower(Spell(key)), Lower(Spell(kind_hint)))

\* the first element of a sequence that is in a set, or NoKey
FirstKey(ks, passing) ==
    IF \E i \in 1..Len(ks) : ks[i] \in passing
    THEN ks[CHOOSE i \in 1..Len(ks) :
                ks[i] \in passing /\ \A j \in 1..(i - 1) : ks[j] \notin passing]
    ELSE NoKey

\* the elements of a sequence, as a set
Range(ks) == {ks[i] : i \in 1..Len(ks)}

\* kind_hint = "" stands for None (both are falsy)
find_channel_settings_key(channel_json, role, kind_hint) ==
    LET RoleTest(key) == IsRoleKey(key, role)
        cands == SelectSeq(Keys(channel_json), RoleTest)
        of_kind == {key \in Range(cands) : HasKind(key, kind_hint)}
        any_settings == {key \in Range(Keys(channel_json)) :
                            EndsWith(Lower(Spell(key)), Spell("settings"))}
    IN IF kind_hint # "" /\ of_kind # {}
       THEN FirstKey(cands, of_kind)
       ELSE IF cands # <<>> THEN cands[1]
       ELSE FirstKey(Keys(channel_json), any_settings)

\* --------------------------------------------------- get_rx_ssb_shift

Raise(e) == [err |-> e, val |-> Null]

Return(v) == [err |-> "", val |-> v]

\* get_rx_ssb_shift, from the fetched document on
rx_ssb_shift_of(data) ==
    LET demod_key == find_channel_settings_key(data, "demod", "ssb")
    IN IF demod_key = NoKey THEN Raise("KeyError")
       ELSE LET settings == Item(data, demod_key)
            IN IF settings.t \in {"num", "null"} THEN Raise("TypeError")
               ELSE IF ~(IsDict(settings) /\ HasKey(settings, "inputFrequencyOffset"))
                    THEN Raise("KeyError")
                    ELSE Return(Item(settings, "inputFrequencyOffset"))

\* ------------------------------------------------------ configuration

R0_DEVICE_SET == 0

R0_CHANNEL == 0

R1_DEVICE_SET == 1

T1_DEVICE_SET == 1

T1_CHANNEL == 0

\* seconds between normal sync iterations (0.3), in milliseconds
SYNC_DELAY == 300

\* seconds to wait when the server is unreachable (10), in milliseconds
RECONNECT_DELAY == 10000

\* iterations of main_loop's while loop that a behaviour may start
MaxIter == 2

\* most items of a generated device or channel document
MaxKeys == 2

\* ------------------------------------------------------------- state

VARIABLES
    chan_settings,  \* server: (device set, channel) -> channel settings document
    dev_settings,   \* server: device set -> device settings document
    offset_hz,      \* --offset
    once,           \* --once
    pc,             \* where main_loop stands
    shift,          \* mirror_and_align_once: the Rx offset read
    applied_shift,  \* mirror_and_align_once: int(shift + offset_hz)
    r0_center,      \* mirror_and_align_once: the R0 center frequency read
    data,           \* set_tx_ssb_shift_if_changed: the document fetched, then mutated
    dev_data,       \* set_device_center_frequency_if_changed: likewise
    log,            \* the line main_loop printed in this iteration ("" for none)
    sleeping,       \* the argument of the time.sleep in progress (0: not sleeping)
    iters,          \* history: iterations started
    reqs,           \* history: the requests this iteration has issued, in order
    fetched,        \* history: the Tx and R1 documents as this iteration fetched them
    conv0,          \* history: the server was converged when this iteration started
    tuned,          \* history: the Rx side was retuned since this iteration started
    partial,        \* history: an earlier iteration wrote the Tx offset and then failed
                    \* at the R1 step, and the Rx side was not retuned since
    healthy,        \* environment: from now on every request succeeds and nobody
                    \* else touches the server or the process
    fn_pc,          \* a function called on its own: "none", "call", "ret..."
    fn_in,          \* its arguments
    fn_out          \* its result

loop_vars == <<pc, shift, applied_shift, r0_center, data, dev_data, log, sleeping,
               iters, reqs, fetched, conv0, tuned, partial, healthy>>

fn_vars == <<fn_pc, fn_in, fn_out>>

vars == <<chan_settings, dev_settings, offset_hz, once, loop_vars, fn_vars>>

\* ---------------------------------------------------------- documents

RxUrl == <<R0_DEVICE_SET, R0_CHANNEL>>

TxUrl == <<T1_DEVICE_SET, T1_CHANNEL>>

RxOffsets == {-1500, 0}

FixedOffsets == {0, 500}

TxOffsets == {-1000, 0}

Centers == {145000000, 432100000}

\* Rx channel (R0:0): an SSB demodulator, one whose block lacks the field, no block
RxDocs ==
    { Dict(<< KV("direction", Num(0)),
              KV("SSBDemodSettings",
                 Dict(<< KV("inputFrequencyOffset", Num(x)), KV("volume", Num(3)) >>)) >>)
      : x \in RxOffsets }
    \cup { Dict(<< KV("direction", Num(0)),
                   KV("SSBDemodSettings", Dict(<< KV("volume", Num(3)) >>)) >>),
           Dict(<< KV("direction", Num(0)) >>) }

\* Tx channel (T1:0): an SSB modulator, one whose block lacks the field, no block
TxDocs ==
    { Dict(<< KV("SSBModSettings",
                 Dict(<< KV("inputFrequencyOffset", Num(y)), KV("toneFrequency", Num(1000)) >>)),
              KV("direction", Num(1)) >>)
      : y \in TxOffsets }
    \cup { Dict(<< KV("SSBModSettings", Dict(<< KV("toneFrequency", Num(1000)) >>)),
                   KV("direction", Num(1)) >>),
           Dict(<< KV("direction", Num(1)) >>) }

\* R0 device: LimeSDR input, a top-level field, no centerFrequency
R0Docs ==
    { Dict(<< KV("deviceHwType", Num(7)),
              KV("limeSdrInputSettings",
                 Dict(<< KV("centerFrequency", Num(c)), KV("gain", Num(20)) >>)) >>)
      : c \in Centers }
    \cup { Dict(<< KV("centerFrequency", Num(c)), KV("deviceHwType", Num(7)) >>)
           : c \in Centers }
    \cup { Dict(<< KV("deviceHwType", Num(7)) >>) }

\* R1 device: USRP output, an unknown driver found by the search, no centerFrequency
R1Docs ==
    { Dict(<< KV("usrpOutputSettings",
                 Dict(<< KV("centerFrequency", Num(c)), KV("gain", Num(20)) >>)),
              KV("deviceHwType", Num(9)) >>)
      : c \in Centers }
    \cup { Dict(<< KV("deviceHwType", Num(9)),
                   KV("streams", List(<< Num(0),
                        Dict(<< KV("lo", Num(1)), KV("centerFrequency", Num(c)) >>) >>)) >>)
           : c \in Centers }
    \cup { Dict(<< KV("deviceHwType", Num(9)) >>) }

\* --------------------------------------------------- observed values

\* the Rx demodulator offset the server holds (Null when there is none)
RxOffsetOf(doc) == Get(Get(doc, "SSBDemodSettings"), "inputFrequencyOffset")

\* the Tx modulator offset the server holds (Null when there is none)
TxOffsetOf(doc) == Get(Get(doc, "SSBModSettings"), "inputFrequencyOffset")

RECURSIVE CentersIn(_)
\* every value stored under a key centerFrequency, at any depth
CentersIn(node) ==
    UNION { (IF node.t = "dict" /\ node.kids[i].k = "centerFrequency"
             THEN {node.kids[i].v} ELSE {})
            \cup CentersIn(node.kids[i].v) : i \in 1..Len(node.kids) }

\* Tx offset == Rx offset + fixed offset, and R1 center == R0 center
Converged(chans, devs, off) ==
    /\ RxOffsetOf(chans[RxUrl]).t = "num"
    /\ TxOffsetOf(chans[TxUrl]) = Num(RxOffsetOf(chans[RxUrl]).n + off)
    /\ Cardinality(CentersIn(devs[R0_DEVICE_SET])) = 1
    /\ CentersIn(devs[R1_DEVICE_SET]) = CentersIn(devs[R0_DEVICE_SET])

\* ---------------------------------------------------------- main_loop

\* positions inside the try body of main_loop
TryBody == {"rx_get", "r0_get", "tx_get", "tx_patch", "r1_get", "r1_patch", "sleep"}

Running == TryBody \cup {"backoff"}

\* "returned": --once return; "stopped": the KeyboardInterrupt handler returned;
\* "escaped": an exception left main_loop
Terminal == {"returned", "stopped", "escaped"}

\* what requests raises: ConnectionError stands for ConnectionError and Timeout
NetErrors == {"ConnectionError", "HTTPError"}

Req(method, res, ds, ch, body) ==
    [m |-> method, res |-> res, ds |-> ds, ch |-> ch, json |-> body]

NoFetch == [tx |-> Null, r1 |-> Null]

\* a handler that lets anything but a requests error leave main_loop
Handler_requests_only(e) ==
    CASE e = "ConnectionError" ->
            [pc |-> "backoff", log |-> "SDRangel unreachable", sleeping |-> RECONNECT_DELAY]
      [] e = "HTTPError" ->
            [pc |-> "backoff", log |-> "HTTP error", sleeping |-> RECONNECT_DELAY]
      [] e = "KeyboardInterrupt" ->
            [pc |-> "stopped", log |-> "Stopped by user", sleeping |-> 0]
      [] OTHER ->
            [pc |-> "escaped", log |-> "", sleeping |-> 0]

\* the except clauses of main_loop, for an exception raised in the try body
Handler(e) ==
    CASE e = "ConnectionError" ->
            [pc |-> "backoff", log |-> "SDRangel unreachable", sleeping |-> RECONNECT_DELAY]
      [] e = "HTTPError" ->
            [pc |-> "backoff", log |-> "HTTP error", sleeping |-> RECONNECT_DELAY]
      [] e = "KeyboardInterrupt" ->
            [pc |-> "stopped", log |-> "Stopped by user", sleeping |-> 0]
      [] OTHER ->
            [pc |-> "backoff", log |-> "Unexpected error", sleeping |-> RECONNECT_DELAY]

\* an exception raised in the try body reaches its except clause
Except(e) ==
    /\ pc' = Handler(e).pc
    /\ log' = Handler(e).log
    /\ sleeping' = Handler(e).sleeping

\* `return` whatever --once says
Completed_always_returns ==
    /\ pc' = "returned"
    /\ sleeping' = 0
    /\ log' = log

\* mirror_and_align_once returned: `if once: return`, else time.sleep(delay)
Completed ==
    /\ pc' = IF once THEN "returned" ELSE "sleep"
    /\ sleeping' = IF once THEN 0 ELSE SYNC_DELAY
    /\ log' = log

\* the while loop starts its next iteration
NextIteration ==
    /\ healthy \/ iters < MaxIter
    /\ pc' = "rx_get"
    /\ iters' = IF healthy THEN iters ELSE iters + 1
    /\ sleeping' = 0
    /\ log' = ""
    /\ reqs' = <<>>
    /\ fetched' = NoFetch
    /\ conv0' = Converged(chan_settings, dev_settings, offset_hz)
    /\ tuned' = FALSE
    /\ partial' = (/\ pc = "backoff"
                   /\ ~tuned
                   /\ reqs # <<>>
                   /\ reqs[Len(reqs)].res = "device"
                   /\ reqs[Len(reqs)].ds = R1_DEVICE_SET
                   /\ Len(reqs) > 2
                   /\ partial \/ \E i \in 1..Len(reqs) : reqs[i].m = "PATCH")
    \* the locals of the call that ended are gone
    /\ shift' = 0
    /\ applied_shift' = 0
    /\ r0_center' = Null
    /\ data' = Null
    /\ dev_data' = Null
    /\ UNCHANGED <<chan_settings, dev_settings, offset_hz, once, healthy, fn_vars>>

\* time.sleep(delay) returns
SleepDone == pc = "sleep" /\ NextIteration

\* time.sleep(RECONNECT_DELAY) returns
BackoffDone == pc = "backoff" /\ NextIteration

\* the sum without the fixed offset
applied_shift_no_offset(sh, off) == sh

\* int(shift + offset_hz): both are integers (the field is an integer in the server's
\* JSON, --offset is parsed as int), for which int() returns its argument
applied_shift_of(sh, off) == sh + off

\* shift = get_rx_ssb_shift(R0_DEVICE_SET, R0_CHANNEL); applied_shift = int(shift + offset_hz)
GetRxShift ==
    /\ pc = "rx_get"
    /\ reqs' = Append(reqs, Req("GET", "channel", R0_DEVICE_SET, R0_CHANNEL, Null))
    /\ \/ \E e \in NetErrors : ~healthy /\ Except(e) /\ UNCHANGED <<shift, applied_shift>>
       \/ \E r \in {rx_ssb_shift_of(chan_settings[RxUrl])} :
             IF r.err # ""
             THEN Except(r.err) /\ UNCHANGED <<shift, applied_shift>>
             ELSE IF r.val.t # "num"
             THEN Except("TypeError") /\ UNCHANGED <<shift, applied_shift>>
             ELSE /\ shift' = r.val.n
                  /\ applied_shift' = applied_shift_of(r.val.n, offset_hz)
                  /\ pc' = "r0_get"
                  /\ UNCHANGED <<log, sleeping>>
    /\ UNCHANGED <<chan_settings, dev_settings, offset_hz, once, r0_center, data, dev_data,
                   iters, fetched, conv0, tuned, partial, healthy, fn_vars>>

\* the R0 step sending the R0 document on to R1 before anything is compared
GetR0Center_writes_through ==
    /\ pc = "r0_get"
    /\ reqs' = Append(reqs, Req("GET", "device", R0_DEVICE_SET, 0, Null))
    /\ \/ \E e \in NetErrors : ~healthy /\ Except(e) /\ UNCHANGED r0_center
       \/ \E dev0 \in {dev_settings[R0_DEVICE_SET]} :
          \E loc \in {find_center_freq_path(dev0)} :
             IF ~loc.found
             THEN Except("KeyError") /\ UNCHANGED r0_center
             ELSE /\ r0_center' = Get(NodeAt(dev0, loc.path), loc.key)
                  /\ pc' = "tx_get"
                  /\ UNCHANGED <<log, sleeping>>
    /\ dev_settings' = [dev_settings EXCEPT ![R1_DEVICE_SET] = dev_settings[R0_DEVICE_SET]]
    /\ UNCHANGED <<chan_settings, offset_hz, once, shift, applied_shift,
                   data, dev_data, iters, fetched, conv0, tuned, partial, healthy, fn_vars>>

\* dev0 = get_device_settings(R0_DEVICE_SET); r0_center = cont0.get(key0)
GetR0Center ==
    /\ pc = "r0_get"
    /\ reqs' = Append(reqs, Req("GET", "device", R0_DEVICE_SET, 0, Null))
    /\ \/ \E e \in NetErrors : ~healthy /\ Except(e) /\ UNCHANGED r0_center
       \/ \E dev0 \in {dev_settings[R0_DEVICE_SET]} :
          \E loc \in {find_center_freq_path(dev0)} :
             IF ~loc.found
             THEN Except("KeyError") /\ UNCHANGED r0_center
             ELSE /\ r0_center' = Get(NodeAt(dev0, loc.path), loc.key)
                  /\ pc' = "tx_get"
                  /\ UNCHANGED <<log, sleeping>>
    /\ UNCHANGED <<chan_settings, dev_settings, offset_hz, once, shift, applied_shift,
                   data, dev_data, iters, fetched, conv0, tuned, partial, healthy, fn_vars>>

\* ---------------------------------------- set_tx_ssb_shift_if_changed

Outcome(e, changed, doc) == [err |-> e, changed |-> changed, doc |-> doc]

\* the update without the assignment to settings["inputFrequencyOffset"]
tx_shift_update_no_assign(fetched_doc, shift_hz) ==
    LET mod_key == find_channel_settings_key(fetched_doc, "mod", "ssb")
    IN IF mod_key = NoKey THEN Outcome("KeyError", FALSE, fetched_doc)
       ELSE LET settings == Item(fetched_doc, mod_key)
            IN IF ~IsDict(settings) THEN Outcome("AttributeError", FALSE, fetched_doc)
               ELSE Outcome("", Get(settings, "inputFrequencyOffset") # Num(shift_hz),
                            fetched_doc)

\* the update without the comparison: the PATCH is sent whatever the value is
tx_shift_update_always(fetched_doc, shift_hz) ==
    LET mod_key == find_channel_settings_key(fetched_doc, "mod", "ssb")
    IN IF mod_key = NoKey THEN Outcome("KeyError", FALSE, fetched_doc)
       ELSE LET settings == Item(fetched_doc, mod_key)
            IN IF ~IsDict(settings) THEN Outcome("AttributeError", FALSE, fetched_doc)
               ELSE Outcome("", TRUE,
                            SetAt(fetched_doc, <<IndexOf(fetched_doc, mod_key)>>,
                                  "inputFrequencyOffset", Num(shift_hz)))

\* set_tx_ssb_shift_if_changed between its GET and its PATCH: the error raised, or
\* whether the value differs and the document as mutated
tx_shift_update(fetched_doc, shift_hz) ==
    LET mod_key == find_channel_settings_key(fetched_doc, "mod", "ssb")
    IN IF mod_key = NoKey THEN Outcome("KeyError", FALSE, fetched_doc)
       ELSE LET settings == Item(fetched_doc, mod_key)
                current == Get(settings, "inputFrequencyOffset")
            IN IF ~IsDict(settings) THEN Outcome("AttributeError", FALSE, fetched_doc)
               ELSE IF current # Num(shift_hz)
               THEN Outcome("", TRUE,
                            SetAt(fetched_doc, <<IndexOf(fetched_doc, mod_key)>>,
                                  "inputFrequencyOffset", Num(shift_hz)))
               ELSE Outcome("", FALSE, fetched_doc)

\* data = get_channel_settings(T1...); compare, mutate
TxGet ==
    /\ pc = "tx_get"
    /\ reqs' = Append(reqs, Req("GET", "channel", T1_DEVICE_SET, T1_CHANNEL, Null))
    /\ \/ \E e \in NetErrors :
            ~healthy /\ Except(e) /\ UNCHANGED <<data, fetched, iters, dev_settings>>
       \/ \E u \in {tx_shift_update(chan_settings[TxUrl], applied_shift)} :
             /\ fetched' = [fetched EXCEPT !.tx = chan_settings[TxUrl]]
             /\ data' = u.doc
             /\ UNCHANGED <<iters, dev_settings>>
             /\ IF u.err # "" THEN Except(u.err)
                ELSE /\ pc' = IF u.changed THEN "tx_patch" ELSE "r1_get"
                     /\ UNCHANGED <<log, sleeping>>
    /\ UNCHANGED <<chan_settings, offset_hz, once, shift, applied_shift, r0_center,
                   dev_data, conv0, tuned, partial, healthy, fn_vars>>

\* a PATCH that is repeated when the server answers with an error status
TxPatch_retry ==
    /\ pc = "tx_patch"
    /\ reqs' = Append(reqs, Req("PATCH", "channel", T1_DEVICE_SET, T1_CHANNEL, data))
    /\ \/ /\ chan_settings' = [chan_settings EXCEPT ![TxUrl] = data]
          /\ pc' = "r1_get"
          /\ UNCHANGED <<log, sleeping>>
       \/ \* an error status: the PATCH is sent again
          /\ ~healthy
          /\ Len(reqs) < 8
          /\ UNCHANGED <<pc, log, sleeping, chan_settings>>
       \/ \* no answer arrives: the server has applied the request, or has not
          /\ ~healthy
          /\ Except("ConnectionError")
          /\ \/ chan_settings' = [chan_settings EXCEPT ![TxUrl] = data]
             \/ UNCHANGED chan_settings
    /\ UNCHANGED <<dev_settings, offset_hz, once, shift, applied_shift, r0_center, data,
                   dev_data, iters, fetched, conv0, tuned, partial, healthy, fn_vars>>

\* set_channel_settings(device_set, channel, data)
TxPatch ==
    /\ pc = "tx_patch"
    /\ reqs' = Append(reqs, Req("PATCH", "channel", T1_DEVICE_SET, T1_CHANNEL, data))
    /\ \/ /\ chan_settings' = [chan_settings EXCEPT ![TxUrl] = data]
          /\ pc' = "r1_get"
          /\ UNCHANGED <<log, sleeping>>
       \/ \* the server answers with an error status and keeps its document
          /\ ~healthy
          /\ Except("HTTPError")
          /\ UNCHANGED chan_settings
       \/ \* no answer arrives: the server has applied the request, or has not
          /\ ~healthy
          /\ Except("ConnectionError")
          /\ \/ chan_settings' = [chan_settings EXCEPT ![TxUrl] = data]
             \/ UNCHANGED chan_settings
    /\ UNCHANGED <<dev_settings, offset_hz, once, shift, applied_shift, r0_center, data,
                   dev_data, iters, fetched, conv0, tuned, partial, healthy, fn_vars>>

\* ----------------------------- set_device_center_frequency_if_changed

\* the update without the comparison: every iteration writes
center_update_always(fetched_doc, new_center_freq) ==
    LET loc == find_center_freq_path(fetched_doc)
    IN IF ~loc.found THEN Outcome("KeyError", FALSE, fetched_doc)
       ELSE Outcome("", TRUE, SetAt(fetched_doc, loc.path, loc.key, new_center_freq))

\* set_device_center_frequency_if_changed between its GET and its PATCH
center_update(fetched_doc, new_center_freq) ==
    LET loc == find_center_freq_path(fetched_doc)
    IN IF ~loc.found THEN Outcome("KeyError", FALSE, fetched_doc)
       ELSE LET current == Get(NodeAt(fetched_doc, loc.path), loc.key)
            IN IF current # new_center_freq
               THEN Outcome("", TRUE, SetAt(fetched_doc, loc.path, loc.key, new_center_freq))
               ELSE Outcome("", FALSE, fetched_doc)

\* dev_data = get_device_settings(R1_DEVICE_SET); compare, mutate
R1Get ==
    /\ pc = "r1_get"
    /\ reqs' = Append(reqs, Req("GET", "device", R1_DEVICE_SET, 0, Null))
    /\ \/ \E e \in NetErrors : ~healthy /\ Except(e) /\ UNCHANGED <<dev_data, fetched>>
       \/ \E u \in {center_update(dev_settings[R1_DEVICE_SET], r0_center)} :
             /\ fetched' = [fetched EXCEPT !.r1 = dev_settings[R1_DEVICE_SET]]
             /\ dev_data' = u.doc
             /\ IF u.err # "" THEN Except(u.err)
                ELSE IF u.changed
                THEN pc' = "r1_patch" /\ UNCHANGED <<log, sleeping>>
                ELSE Completed
    /\ UNCHANGED <<chan_settings, dev_settings, offset_hz, once, shift, applied_shift,
                   r0_center, data, iters, conv0, tuned, partial, healthy, fn_vars>>

\* the PATCH addressed to the reference device set
R1Patch_to_reference ==
    /\ pc = "r1_patch"
    /\ reqs' = Append(reqs, Req("PATCH", "device", R0_DEVICE_SET, 0, dev_data))
    /\ \/ /\ dev_settings' = [dev_settings EXCEPT ![R0_DEVICE_SET] = dev_data]
          /\ Completed
       \/ /\ ~healthy
          /\ Except("HTTPError")
          /\ UNCHANGED dev_settings
       \/ /\ ~healthy
          /\ Except("ConnectionError")
          /\ \/ dev_settings' = [dev_settings EXCEPT ![R0_DEVICE_SET] = dev_data]
             \/ UNCHANGED dev_settings
    /\ UNCHANGED <<chan_settings, offset_hz, once, shift, applied_shift, r0_center, data,
                   dev_data, iters, fetched, conv0, tuned, partial, healthy, fn_vars>>

\* set_device_settings(device_set, dev_data)
R1Patch ==
    /\ pc = "r1_patch"
    /\ reqs' = Append(reqs, Req("PATCH", "device", R1_DEVICE_SET, 0, dev_data))
    /\ \/ /\ dev_settings' = [dev_settings EXCEPT ![R1_DEVICE_SET] = dev_data]
          /\ Completed
       \/ /\ ~healthy
          /\ Except("HTTPError")
          /\ UNCHANGED dev_settings
       \/ /\ ~healthy
          /\ Except("ConnectionError")
          /\ \/ dev_settings' = [dev_settings EXCEPT ![R1_DEVICE_SET] = dev_data]
             \/ UNCHANGED dev_settings
    /\ UNCHANGED <<chan_settings, offset_hz, once, shift, applied_shift, r0_center, data,
                   dev_data, iters, fetched, conv0, tuned, partial, healthy, fn_vars>>

\* Ctrl-C: KeyboardInterrupt is raised wherever main_loop stands.  In the try body
\* the except clause returns; raised by the time.sleep of an except clause it is
\* outside every try body and leaves main_loop
Interrupt ==
    /\ ~healthy
    /\ pc \in Running
    /\ IF pc \in TryBody THEN Except("KeyboardInterrupt")
       ELSE pc' = "escaped" /\ sleeping' = 0 /\ log' = log
    /\ UNCHANGED <<chan_settings, dev_settings, offset_hz, once, shift, applied_shift,
                   r0_center, data, dev_data, iters, reqs, fetched, conv0, tuned, partial, healthy, fn_vars>>

\* the operator retunes the receiver: another Rx offset, or another R0 center
Retune ==
    /\ ~healthy
    /\ pc \in Running
    /\ \/ /\ RxOffsetOf(chan_settings[RxUrl]).t = "num"
          /\ \E x \in RxOffsets \ {RxOffsetOf(chan_settings[RxUrl]).n} :
                chan_settings' = [chan_settings EXCEPT ![RxUrl] =
                    SetAt(@, <<IndexOf(@, "SSBDemodSettings")>>,
                          "inputFrequencyOffset", Num(x))]
          /\ UNCHANGED dev_settings
       \/ /\ find_center_freq_path(dev_settings[R0_DEVICE_SET]).found
          /\ LET loc == find_center_freq_path(dev_settings[R0_DEVICE_SET])
             IN \E c \in Centers :
                  /\ Num(c) # Get(NodeAt(dev_settings[R0_DEVICE_SET], loc.path), loc.key)
                  /\ dev_settings' = [dev_settings EXCEPT ![R0_DEVICE_SET] =
                                         SetAt(@, loc.path, loc.key, Num(c))]
          /\ UNCHANGED chan_settings
    /\ tuned' = TRUE
    /\ partial' = FALSE
    /\ UNCHANGED <<offset_hz, once, pc, shift, applied_shift, r0_center, data, dev_data,
                   log, sleeping, iters, reqs, fetched, conv0, healthy, fn_vars>>

Init ==
    /\ chan_settings \in [{RxUrl, TxUrl} -> RxDocs \cup TxDocs]
    /\ chan_settings[RxUrl] \in RxDocs
    /\ chan_settings[TxUrl] \in TxDocs
    /\ dev_settings \in [{R0_DEVICE_SET, R1_DEVICE_SET} -> R0Docs \cup R1Docs]
    /\ dev_settings[R0_DEVICE_SET] \in R0Docs
    /\ dev_settings[R1_DEVICE_SET] \in R1Docs
    /\ offset_hz \in FixedOffsets
    /\ once \in BOOLEAN
    /\ pc = "rx_get"
    /\ shift = 0
    /\ applied_shift = 0
    /\ r0_center = Null
    /\ data = Null
    /\ dev_data = Null
    /\ log = ""
    /\ sleeping = 0
    /\ iters = 1
    /\ reqs = <<>>
    /\ fetched = NoFetch
    /\ conv0 = Converged(chan_settings, dev_settings, offset_hz)
    /\ tuned = FALSE
    /\ partial = FALSE
    /\ healthy = FALSE
    /\ fn_pc = "none"
    /\ fn_in = Null
    /\ fn_out = Null

Next ==
    \/ GetRxShift
    \/ GetR0Center
    \/ TxGet
    \/ TxPatch
    \/ R1Get
    \/ R1Patch
    \/ SleepDone
    \/ BackoffDone
    \/ Interrupt
    \/ Retune

Spec == Init /\ [][Next]_vars

\* ------------------------------------------- a server that stays healthy

\* the trouble ends for good: requests succeed, the documents keep their fields, the
\* receiver is left alone and nobody interrupts
Recover ==
    /\ ~healthy
    /\ pc \in Running
    /\ healthy' = TRUE
    /\ UNCHANGED <<chan_settings, dev_settings, offset_hz, once, pc, shift, applied_shift,
                   r0_center, data, dev_data, log, sleeping, iters, reqs, fetched, conv0,
                   tuned, partial, fn_vars>>

\* continuous mode, every document with the fields the loop expects (R0, which is
\* only read, as a LimeSDR input)
InitLive ==
    /\ Init
    /\ ~once
    /\ RxOffsetOf(chan_settings[RxUrl]).t = "num"
    /\ TxOffsetOf(chan_settings[TxUrl]).t = "num"
    /\ HasKey(dev_settings[R0_DEVICE_SET], "limeSdrInputSettings")
    /\ find_center_freq_path(dev_settings[R1_DEVICE_SET]).found

\* the steps main_loop takes by itself
MainLoop ==
    \/ GetRxShift
    \/ GetR0Center
    \/ TxGet
    \/ TxPatch
    \/ R1Get
    \/ R1Patch
    \/ SleepDone
    \/ BackoffDone

\* nobody interrupts: an interrupted loop has no "from some point on"
NextLive ==
    \/ MainLoop
    \/ Retune
    \/ Recover

\* a request returns or times out (timeout=5) and a sleep ends: main_loop never
\* stands still while it has a step to take
SpecLive == InitLive /\ [][NextLive]_vars /\ WF_vars(MainLoop)

\* ------------------------------------------------------------- claims

\* the writes this iteration has issued to one kind of resource
Patches(res) == {i \in 1..Len(reqs) : reqs[i].m = "PATCH" /\ reqs[i].res = res}

\* mirror_and_align_once has returned and main_loop has not yet looped
IterationDone == pc \in {"sleep", "returned"}

\* set_tx_ssb_shift_if_changed has returned in this iteration
PastTx ==
    \/ pc = "r1_get"
    \/ \E i \in 1..Len(reqs) : reqs[i].m = "GET" /\ reqs[i].res = "device"
                               /\ reqs[i].ds = R1_DEVICE_SET

\* a dict without one of its keys
WithoutItem(d, key) == [d EXCEPT !.kids = SelectSeq(@, LAMBDA kv : kv.k # key)]

\* a Tx document without the modulator's inputFrequencyOffset
StripTxOffset(doc) ==
    [doc EXCEPT !.kids[IndexOf(doc, "SSBModSettings")].v =
                    WithoutItem(@, "inputFrequencyOffset")]

\* C1: after every iteration that completes without error, the server's Tx modulator
\* inputFrequencyOffset is the Rx offset read in that iteration plus the fixed offset,
\* and the R1 device's center frequency is the R0 center frequency read in it.
C1_RemoteInvariant ==
    IterationDone =>
        /\ TxOffsetOf(chan_settings[TxUrl]) = Num(shift + offset_hz)
        /\ CentersIn(dev_settings[R1_DEVICE_SET]) = {r0_center}

\* an iteration that wrote both resources has completed, with -1500 + 500
C1_Witness ==
    /\ IterationDone
    /\ Patches("channel") # {} /\ Patches("device") # {}
    /\ shift = -1500 /\ offset_hz = 500
    /\ TxOffsetOf(chan_settings[TxUrl]) = Num(-1000)

\* C2: an iteration that starts on a converged server (and no retune since) issues
\* no PATCH; and any PATCH issued carries a value that differs from the value the
\* preceding GET observed.
C2_Idempotence ==
    /\ (conv0 /\ ~tuned) => Patches("channel") \cup Patches("device") = {}
    /\ \A i \in Patches("channel") :
          /\ TxOffsetOf(fetched.tx) # Num(applied_shift)
          /\ TxOffsetOf(reqs[i].json) = Num(applied_shift)
    /\ \A i \in Patches("device") :
          /\ r0_center \notin CentersIn(fetched.r1)
          /\ CentersIn(reqs[i].json) = {r0_center}

\* an iteration on a converged server has completed with its four reads only
C2_Witness ==
    /\ IterationDone /\ conv0 /\ ~tuned
    /\ Len(reqs) = 4
    /\ shift = -1500 /\ offset_hz = 500

\* C3: when the Tx offset fetched differs from the desired value, the iteration issues
\* exactly one Tx channel write, which sets the modulator's inputFrequencyOffset to
\* rx_offset + fixed_offset (-1500 and 500 give -1000) and changes nothing else in the
\* Tx document.
C3_Convergence ==
    /\ Cardinality(Patches("channel")) <= 1
    /\ (PastTx /\ TxOffsetOf(fetched.tx) # Num(shift + offset_hz)) =>
          /\ Cardinality(Patches("channel")) = 1
          /\ \A i \in Patches("channel") :
                /\ TxOffsetOf(reqs[i].json) = Num(shift + offset_hz)
                /\ (shift = -1500 /\ offset_hz = 500) =>
                       TxOffsetOf(reqs[i].json) = Num(-1000)
                /\ StripTxOffset(reqs[i].json) = StripTxOffset(fetched.tx)
                /\ chan_settings[TxUrl] = reqs[i].json

\* a Tx offset of 0 was replaced by -1500 + 500 = -1000
C3_Witness ==
    /\ PastTx
    /\ shift = -1500 /\ offset_hz = 500
    /\ TxOffsetOf(fetched.tx) = Num(0)
    /\ Cardinality(Patches("channel")) = 1
    /\ TxOffsetOf(chan_settings[TxUrl]) = Num(-1000)

RECURSIVE Shape(_)
\* a document's keys and nesting: every number replaced by 0
Shape(node) ==
    [t |-> node.t, n |-> 0,
     kids |-> [i \in 1..Len(node.kids) |-> KV(node.kids[i].k, Shape(node.kids[i].v))]]

RECURSIVE LeavesFrom(_, _)
\* the leaf values of a document, in document order
LeavesFrom(node, i) ==
    IF node.kids = <<>> THEN (IF i = 1 THEN <<node>> ELSE <<>>)
    ELSE IF i > Len(node.kids) THEN <<>>
    ELSE LeavesFrom(node.kids[i].v, 1) \o LeavesFrom(node, i + 1)

Leaves(node) == LeavesFrom(node, 1)

\* b is a with exactly one leaf value replaced: same keys, same nesting
OneLeafReplaced(a, b) ==
    /\ Shape(a) = Shape(b)
    /\ Cardinality({i \in 1..Len(Leaves(a)) : Leaves(a)[i] # Leaves(b)[i]}) = 1

\* C4: the body of every PATCH is the document the preceding GET of that resource
\* fetched with exactly one leaf value replaced: no key added or removed, everything
\* else unchanged.
C4_RoundTrip ==
    /\ \A i \in Patches("channel") : OneLeafReplaced(fetched.tx, reqs[i].json)
    /\ \A i \in Patches("device") : OneLeafReplaced(fetched.r1, reqs[i].json)

\* the lines the except clauses print before they sleep
ErrorLines == {"SDRangel unreachable", "HTTP error", "Unexpected error"}

\* C5: in continuous mode a failed iteration (connection failure or timeout, HTTP error
\* status, schema mismatch, at any request) makes main_loop print a line and sleep
\* RECONNECT_DELAY, not SYNC_DELAY; after that sleep the next iteration starts; and
\* main_loop stops running only by an interrupt.
C5_NoErrorFatal ==
    [][ ~once =>
          /\ (pc \in TryBody /\ pc' = "backoff") =>
                /\ log' \in ErrorLines
                /\ sleeping' = RECONNECT_DELAY
                /\ sleeping' # SYNC_DELAY
          /\ (pc = "backoff" /\ pc' # "backoff" /\ ~Interrupt) => pc' = "rx_get"
          /\ (pc \in Running /\ pc' \notin Running) => Interrupt
      ]_vars

\* continuous mode is in its second iteration although the Rx channel document has no
\* usable demodulator block, and that iteration has failed on it as well
C5_Witness ==
    /\ ~once
    /\ iters = 2
    /\ pc = "backoff"
    /\ log = "Unexpected error"
    /\ sleeping = RECONNECT_DELAY
    /\ RxOffsetOf(chan_settings[RxUrl]) = Null

\* C6: in single-shot mode the iteration runs exactly once, and a failed iteration
\* ends main_loop with the error instead of a backoff and a retry.
C6_SingleShot ==
    once => (iters = 1 /\ pc # "backoff")

\* ------------------------------------- the locators, on generated input

\* every sequence of at most MaxKeys items with distinct keys
ItemSeqs(keys, values) ==
    { items \in UNION { [1..n -> [k : keys, v : values]] : n \in 0..MaxKeys } :
        \A i, j \in 1..Len(items) : i # j => items[i].k # items[j].k }

CenterBlock == Dict(<< KV("centerFrequency", Num(145000000)), KV("gain", Num(20)) >>)

DeviceKeys ==
    {"limeSdrInputSettings", "limeSdrOutputSettings", "usrpInputSettings",
     "usrpOutputSettings", "centerFrequency", "rtlSdrSettings"}

DeviceValues ==
    { Num(145000000),
      CenterBlock,
      Dict(<< KV("gain", Num(20)) >>),
      Dict(<< KV("inner", CenterBlock) >>),
      List(<< Num(0), CenterBlock >>),
      List(<< List(<< CenterBlock >>) >>) }

DeviceDocs == { Dict(items) : items \in ItemSeqs(DeviceKeys, DeviceValues) }

ChannelKeys ==
    {"SSBDemodSettings", "SSBModSettings", "AMDemodSettings", "NFMModSettings",
     "FileSinkSettings", "SSBMODSETTINGS", "channelType"}

ChannelValues ==
    { Dict(<< KV("inputFrequencyOffset", Num(-1500)), KV("volume", Num(3)) >>),
      Dict(<< KV("volume", Num(3)) >>),
      Num(1) }

ChannelDocs == { Dict(items) : items \in ItemSeqs(ChannelKeys, ChannelValues) }

\* main_loop is not running
LoopIdle ==
    /\ chan_settings = [u \in {RxUrl, TxUrl} |-> Dict(<<>>)]
    /\ dev_settings = [d \in {R0_DEVICE_SET, R1_DEVICE_SET} |-> Dict(<<>>)]
    /\ offset_hz = 0
    /\ once = TRUE
    /\ pc = "returned"
    /\ shift = 0
    /\ applied_shift = 0
    /\ r0_center = Null
    /\ data = Null
    /\ dev_data = Null
    /\ log = ""
    /\ sleeping = 0
    /\ iters = 0
    /\ reqs = <<>>
    /\ fetched = NoFetch
    /\ conv0 = FALSE
    /\ tuned = FALSE
    /\ partial = FALSE
    /\ healthy = FALSE

main_vars == <<chan_settings, dev_settings, offset_hz, once, loop_vars>>

InitDevice ==
    /\ LoopIdle
    /\ fn_pc = "call"
    /\ fn_in \in [doc : DeviceDocs]
    /\ fn_out = Null

\* find_center_freq_path(dev_data)
CallFindCenterFreqPath ==
    /\ fn_pc = "call"
    /\ fn_out' = find_center_freq_path(fn_in.doc)
    /\ fn_pc' = "ret"
    /\ UNCHANGED <<fn_in, main_vars>>

NextDevice == CallFindCenterFreqPath

SpecDevice == InitDevice /\ [][NextDevice]_vars

InitChannel ==
    /\ LoopIdle
    /\ fn_pc = "call"
    /\ fn_in \in [doc : ChannelDocs, role : {"demod", "mod"}, kind_hint : {"ssb", ""}]
    /\ fn_out = Null

\* find_channel_settings_key(channel_json, role, kind_hint)
CallFindChannelSettingsKey ==
    /\ fn_pc = "call"
    /\ fn_out' = find_channel_settings_key(fn_in.doc, fn_in.role, fn_in.kind_hint)
    /\ fn_pc' = "ret_key"
    /\ UNCHANGED <<fn_in, main_vars>>

\* get_rx_ssb_shift(), on the document its GET returned
CallGetRxShift ==
    /\ fn_pc = "call"
    /\ fn_out' = rx_ssb_shift_of(fn_in.doc)
    /\ fn_pc' = "ret_shift"
    /\ UNCHANGED <<fn_in, main_vars>>

NextChannel ==
    \/ CallFindChannelSettingsKey
    \/ CallGetRxShift

SpecChannel == InitChannel /\ [][NextChannel]_vars

\* --------------------------------------------------- locator claims

\* a top-level key that ends in `suffix`, case as written
KeysEnding(doc, suffix) ==
    { doc.kids[i].k : i \in {j \in 1..Len(doc.kids) : EndsWith(Spell(doc.kids[j].k), Spell(suffix))} }

\* C7: for a channel document with both a key ending in DemodSettings and a key ending
\* in ModSettings, in either order, find_channel_settings_key with role 'mod' and no
\* kind hint returns the ModSettings key, never the DemodSettings key.
C7_RoleDisambiguation ==
    (/\ fn_pc = "ret_key"
     /\ fn_in.role = "mod" /\ fn_in.kind_hint = ""
     /\ KeysEnding(fn_in.doc, "DemodSettings") # {}
     /\ KeysEnding(fn_in.doc, "ModSettings") # {})
    => /\ fn_out \in KeysEnding(fn_in.doc, "ModSettings")
       /\ fn_out \notin KeysEnding(fn_in.doc, "DemodSettings")

\* a top-level SSB demodulator block that holds inputFrequencyOffset
HasSsbDemodOffset(doc) ==
    \E i \in 1..Len(doc.kids) :
        /\ Contains(Lower(Spell(doc.kids[i].k)), Spell("ssb"))
        /\ EndsWith(Lower(Spell(doc.kids[i].k)), Lower(Spell("DemodSettings")))
        /\ IsDict(doc.kids[i].v)
        /\ HasKey(doc.kids[i].v, "inputFrequencyOffset")

\* C8: get_rx_ssb_shift raises a schema-mismatch error whenever the Rx channel document
\* is not an SSB demodulator or its block has no inputFrequencyOffset; it returns a
\* value only for an SSB demodulator block that holds the field.
C8_RxShiftSchema ==
    fn_pc = "ret_shift" =>
        /\ fn_out.err = "" => HasSsbDemodOffset(fn_in.doc)
        /\ ~HasSsbDemodOffset(fn_in.doc) => fn_out.err \in {"KeyError", "TypeError"}

\* the driver blocks find_center_freq_path knows, in the order it tries them
KnownBlocks ==
    <<"limeSdrInputSettings", "limeSdrOutputSettings", "usrpInputSettings",
      "usrpOutputSettings">>

\* the i-th known block is a mapping that holds centerFrequency
KnownBlockHit(doc, i) ==
    /\ HasKey(doc, KnownBlocks[i])
    /\ IsDict(Item(doc, KnownBlocks[i]))
    /\ HasKey(Item(doc, KnownBlocks[i]), "centerFrequency")

\* C9: the known paths are tried in order (the four driver blocks, then the top-level
\* key): a centerFrequency nested in a driver block yields that block and key, the
\* first such block in that order and also when a top-level centerFrequency exists;
\* with only a top-level centerFrequency the root and key are returned; with no
\* centerFrequency anywhere the result is (None, None).
C9_SchemaTolerance ==
    fn_pc = "ret" =>
        /\ \A i \in 1..Len(KnownBlocks) :
              (KnownBlockHit(fn_in.doc, i) /\ \A j \in 1..(i - 1) : ~KnownBlockHit(fn_in.doc, j))
              => fn_out = Found(<<IndexOf(fn_in.doc, KnownBlocks[i])>>, "centerFrequency")
        /\ ((\A i \in 1..Len(KnownBlocks) : ~KnownBlockHit(fn_in.doc, i))
            /\ HasKey(fn_in.doc, "centerFrequency"))
              => fn_out = Found(<<>>, "centerFrequency")
        /\ CentersIn(fn_in.doc) = {} => fn_out = NotFound

\* a document with a top-level centerFrequency first and a USRP output block after it
\* has yielded the block
C9_Witness ==
    /\ fn_pc = "ret"
    /\ Len(fn_in.doc.kids) = 2
    /\ fn_in.doc.kids[1].k = "centerFrequency"
    /\ fn_in.doc.kids[2] = KV("usrpOutputSettings", CenterBlock)
    /\ fn_out = Found(<<2>>, "centerFrequency")

RECURSIVE ReachableDicts(_, _)
\* the references to mappings reached from the mapping at p through mapping values
\* and through mappings that are elements of sequence values
ReachableDicts(doc, p) ==
    LET node == NodeAt(doc, p)
        direct == { p \o <<i>> : i \in {j \in 1..Len(node.kids) : IsDict(node.kids[j].v)} }
        inlist == UNION { { p \o <<i, j>> :
                              j \in {m \in 1..Len(node.kids[i].v.kids) :
                                        IsDict(node.kids[i].v.kids[m].v)} }
                          : i \in {j \in 1..Len(node.kids) : IsList(node.kids[j].v)} }
    IN {p} \cup UNION { ReachableDicts(doc, q) : q \in direct \cup inlist }

RECURSIVE DictCount(_)
\* the mappings of a document
DictCount(node) ==
    LET Sum[i \in 0..Len(node.kids)] ==
            IF i = 0 THEN 0 ELSE Sum[i - 1] + DictCount(node.kids[i].v)
    IN (IF IsDict(node) THEN 1 ELSE 0) + Sum[Len(node.kids)]

\* no known path matches
NoKnownPath(doc) ==
    /\ \A i \in 1..Len(KnownBlocks) : ~KnownBlockHit(doc, i)
    /\ ~HasKey(doc, "centerFrequency")

\* C10: when no known path matches, the result is a mapping that directly holds
\* centerFrequency whenever one is reachable through mapping values and mappings in
\* sequence values; (None, None) is returned only when no mapping of the document
\* holds centerFrequency; and the traversal ends on every finite document.
C10_Fallback ==
    (fn_pc = "ret" /\ NoKnownPath(fn_in.doc)) =>
        /\ (\E p \in ReachableDicts(fn_in.doc, <<>>) :
                HasKey(NodeAt(fn_in.doc, p), "centerFrequency"))
            => /\ fn_out.found
               /\ fn_out.path \in ReachableDicts(fn_in.doc, <<>>)
               /\ HasKey(NodeAt(fn_in.doc, fn_out.path), fn_out.key)
               /\ fn_out.key = "centerFrequency"
        /\ ~fn_out.found => CentersIn(fn_in.doc) = {}
        /\ SearchPops(fn_in.doc, << <<>> >>) <= DictCount(fn_in.doc)

\* a key that ends in 'Settings' (case-insensitively)
IsSettingsKey(key) == EndsWith(Lower(Spell(key)), Spell("settings"))

\* a settings key of the role asked for: a demodulator block for 'demod'; for 'mod' a
\* modulator block, which a demodulator block is not
MatchesRole(key, role) ==
    /\ IsSettingsKey(key)
    /\ Contains(Lower(Spell(key)), Spell(role))
    /\ role = "mod" => ~Contains(Lower(Spell(key)), Spell("demod"))

\* C11: among the top-level keys that end in 'Settings' and match the role, one whose
\* name contains the kind hint is returned in preference; with no such key the first
\* role match; with no role match a key ending in 'Settings'; with none of these None.
C11_SelectionOrder ==
    fn_pc = "ret_key" =>
        LET ks == Keys(fn_in.doc)
            RoleTest(key) == MatchesRole(key, fn_in.role)
            matches == SelectSeq(ks, RoleTest)
            hinted == {key \in Range(matches) : HasKind(key, fn_in.kind_hint)}
            settings == {key \in Range(ks) : IsSettingsKey(key)}
        IN IF fn_in.kind_hint # "" /\ hinted # {} THEN fn_out \in hinted
           ELSE IF matches # <<>> THEN fn_out = matches[1]
           ELSE IF settings # {} THEN fn_out \in settings
           ELSE fn_out = NoKey

\* C12: an interrupt delivered at any point of main_loop (during an iteration's
\* requests, the normal sleep or the backoff sleep) ends the loop through the
\* KeyboardInterrupt handler and never leaves main_loop as an unhandled error.
C12_CleanInterrupt ==
    [][Interrupt => (pc' = "stopped" /\ log' = "Stopped by user")]_vars

\* --------------------------------------------------- iteration claims

\* the value the iteration fetched under R1's centerFrequency differs from R0's
AlignmentNeeded == CentersIn(fetched.r1) # {r0_center}

\* C13: an iteration that wrote the Tx offset and then failed at the R1 read or write
\* leaves the Tx write in place and undoes nothing; with the Rx values unchanged, the
\* next iteration that completes issues no Tx write, writes R1 exactly if its center
\* still differs, and leaves the server converged.
C13_SelfHealing ==
    /\ [][ (pc \in {"r1_get", "r1_patch"} /\ pc' = "backoff") =>
              /\ chan_settings' = chan_settings
              /\ Len(reqs') = Len(reqs) + 1 ]_vars
    /\ [][ pc = "backoff" => (chan_settings' = chan_settings \/ Retune) ]_vars
    /\ [](partial =>
            /\ RxOffsetOf(chan_settings[RxUrl]).t = "num"
            /\ TxOffsetOf(chan_settings[TxUrl])
                 = Num(RxOffsetOf(chan_settings[RxUrl]).n + offset_hz))
    /\ []((partial /\ IterationDone) =>
            /\ Patches("channel") = {}
            /\ Patches("device") # {} <=> AlignmentNeeded
            /\ Converged(chan_settings, dev_settings, offset_hz))

C13_Witness ==
    /\ partial
    /\ IterationDone
    /\ Patches("device") # {}
    /\ TxOffsetOf(fetched.tx) = Num(applied_shift)

\* what a request is addressed to
Target(r) == <<r.m, r.res, r.ds, r.ch>>

\* the requests of an iteration in which both values differ
FullOrder ==
    << <<"GET", "channel", R0_DEVICE_SET, R0_CHANNEL>>,
       <<"GET", "device", R0_DEVICE_SET, 0>>,
       <<"GET", "channel", T1_DEVICE_SET, T1_CHANNEL>>,
       <<"PATCH", "channel", T1_DEVICE_SET, T1_CHANNEL>>,
       <<"GET", "device", R1_DEVICE_SET, 0>>,
       <<"PATCH", "device", R1_DEVICE_SET, 0>> >>

\* order with the elements at the positions in skipped left out
Without(order, skipped) ==
    LET Kept(i) == i \notin skipped
        RECURSIVE Pick(_)
        Pick(i) == IF i > Len(order) THEN <<>>
                   ELSE (IF Kept(i) THEN <<order[i]>> ELSE <<>>) \o Pick(i + 1)
    IN Pick(1)

\* the two writes are optional
Orders == {Without(FullOrder, skipped) : skipped \in SUBSET {4, 6}}

\* C14: the requests of an iteration are issued in the order read Rx channel, read
\* R0 device, read Tx channel, optional write Tx channel, read R1 device, optional
\* write R1 device; every write directly follows a read of the same resource, and an
\* iteration issues at most eight requests.
C14_RequestOrder ==
    /\ \E order \in Orders :
          /\ Len(reqs) <= Len(order)
          /\ \A i \in 1..Len(reqs) : Target(reqs[i]) = order[i]
    /\ \A i \in 1..Len(reqs) :
          reqs[i].m = "PATCH" =>
              /\ i > 1
              /\ reqs[i - 1].m = "GET"
              /\ <<reqs[i - 1].res, reqs[i - 1].ds, reqs[i - 1].ch>>
                   = <<reqs[i].res, reqs[i].ds, reqs[i].ch>>
    /\ Len(reqs) <= 8

C14_Witness ==
    /\ IterationDone
    /\ Len(reqs) = 6
    /\ reqs[4].m = "PATCH"
    /\ reqs[6].m = "PATCH"

\* the iteration failed at its first or second request, or on what it returned
ReadingFailed == pc = "backoff" /\ Len(reqs) <= 2

\* C15: an iteration that fails while reading the Rx channel settings or the R0 device
\* settings issues no write: the Tx channel document and the R1 device document on
\* the server are what they were when the iteration started.
C15_NoWriteOnReadFailure ==
    [][ (pc \in {"rx_get", "r0_get"} \/ ReadingFailed) =>
           /\ chan_settings'[TxUrl] = chan_settings[TxUrl]
           /\ dev_settings'[R1_DEVICE_SET] = dev_settings[R1_DEVICE_SET]
           /\ \A i \in 1..Len(reqs') : reqs'[i].m = "GET" ]_vars

C15_Witness ==
    /\ ReadingFailed
    /\ Len(reqs) = 2
    /\ log = "Unexpected error"
    /\ ~Converged(chan_settings, dev_settings, offset_hz)

\* the remote state is converged and main_loop is not about to write
Stable ==
    /\ Converged(chan_settings, dev_settings, offset_hz)
    /\ pc \notin {"tx_patch", "r1_patch"}

\* C16: in continuous mode, once every request succeeds, the documents have their
\* fields and the Rx values stay as they are, the loop reaches a state where Tx
\* offset == Rx offset + fixed offset and R1 center == R0 center, and from then on
\* it issues no write.
C16_Stabilisation == <>[](healthy => Stable)

C16_Witness ==
    /\ healthy
    /\ Stable
    /\ pc = "sleep"
    /\ Patches("channel") # {}
    /\ Patches("device") # {}
    /\ ~conv0

\* C17: no request of any iteration writes the reference device set's channel or
\* device settings; the only resources written are the Tx channel settings and the
\* R1 device settings, and main_loop leaves the reference documents as they are.
C17_ReferenceReadOnly ==
    /\ [](\A i \in 1..Len(reqs) :
            reqs[i].m = "PATCH" =>
                /\ \/ <<reqs[i].res, reqs[i].ds, reqs[i].ch>>
                        = <<"channel", T1_DEVICE_SET, T1_CHANNEL>>
                   \/ <<reqs[i].res, reqs[i].ds>> = <<"device", R1_DEVICE_SET>>
                /\ reqs[i].ds # R0_DEVICE_SET)
    /\ [][ ~Retune =>
              /\ chan_settings'[RxUrl] = chan_settings[RxUrl]
              /\ dev_settings'[R0_DEVICE_SET] = dev_settings[R0_DEVICE_SET] ]_vars

C17_Witness ==
    /\ iters > 1
    /\ pc = "backoff"
    /\ Patches("channel") # {}
    /\ Patches("device") # {}

====
